---- MODULE Spec2Model ----
(***************************************************************************)
(* Model of the retail-analytics copilot's orchestration graph             *)
(* (src/agent/graph_hybrid.py), its Evidence Store (sqlite_tool.py) and    *)
(* its Passage Index (rag/retrieval.py).  One behaviour is one call of     *)
(* agent_app.invoke(initial_state): a sequential walk of the compiled      *)
(* LangGraph.  The text-generation backend, the SQL engine and the BM25    *)
(* scorer are external: their outputs are chosen nondeterministically      *)
(* from small sets.                                                        *)
(***************************************************************************)
EXTENDS Integers, Sequences, FiniteSets, TLC

(***************************************************************************)
(* Python values.  Text is a TLA+ string (TLC evaluates Len, \o, SubSeq on *)
(* strings); None is a record distinct from every string value.            *)
(***************************************************************************)
None == [isNone |-> TRUE]
Str(s) == [isNone |-> FALSE, s |-> s]
IsNone(v) == v.isNone
\* Python truthiness of an Optional[str]: None and "" are both falsy.
Truthy(v) == (~v.isNone) /\ (v.s # "")

(***************************************************************************)
(* str methods used by the code, computed character by character.          *)
(***************************************************************************)
UpperChars == "ABCDEFGHIJKLMNOPQRSTUVWXYZ"
LowerChars == "abcdefghijklmnopqrstuvwxyz"
WhiteChars == " \n\t"

\* The element of a singleton set.  { f(v) : v \in {e} } computes e once and binds its
\* value, the way a Python local variable does.
Only(S) == CHOOSE v \in S : TRUE

CharAt(s, i) == SubSeq(s, i, i)
UpperSet == {CharAt(UpperChars, i) : i \in 1..Len(UpperChars)}
WhiteSet == {CharAt(WhiteChars, i) : i \in 1..Len(WhiteChars)}
LowerOf ==
  [c \in UpperSet |->
     CharAt(LowerChars, CHOOSE i \in 1..Len(UpperChars) : CharAt(UpperChars, i) = c)]
LowerChar(c) == IF c \in UpperSet THEN LowerOf[c] ELSE c

RECURSIVE LowerFrom(_)
LowerFrom(s) == IF s = "" THEN "" ELSE LowerChar(Head(s)) \o LowerFrom(Tail(s))
\* str.lower()
StrLower(s) == Only({ LowerFrom(v) : v \in {s} })

RECURSIVE LStrip(_)
LStrip(s) == IF s # "" /\ Head(s) \in WhiteSet THEN LStrip(Tail(s)) ELSE s
RECURSIVE RStrip(_)
RStrip(s) ==
  IF s # "" /\ CharAt(s, Len(s)) \in WhiteSet
    THEN RStrip(SubSeq(s, 1, Len(s) - 1)) ELSE s
\* str.strip()
StrStrip(s) == Only({ RStrip(l) : l \in {LStrip(v) : v \in {s}} })

StartsWith(s, p) == Len(p) <= Len(s) /\ SubSeq(s, 1, Len(p)) = p
\* Python's `sub in s`
StrContains(s, sub) ==
  \E sv \in {s}, subv \in {sub} :
    \E i \in 1..(Len(sv) - Len(subv) + 1) : SubSeq(sv, i, i + Len(subv) - 1) = subv

\* str.replace(old, new) for a non-empty old: left to right, non-overlapping.
RECURSIVE ReplaceFrom(_, _, _)
ReplaceFrom(s, old, new) ==
  IF s = "" THEN ""
  ELSE IF StartsWith(s, old)
    THEN new \o ReplaceFrom(SubSeq(s, Len(old) + 1, Len(s)), old, new)
    ELSE Head(s) \o ReplaceFrom(Tail(s), old, new)
StrReplace(s, old, new) == Only({ ReplaceFrom(v, old, new) : v \in {s} })

\* str.split() with no argument: maximal runs of non-whitespace characters.
RECURSIVE SplitFrom(_, _)
SplitFrom(s, cur) ==
  IF s = "" THEN (IF cur = "" THEN <<>> ELSE <<cur>>)
  ELSE IF Head(s) \in WhiteSet
    THEN (IF cur = "" THEN <<>> ELSE <<cur>>) \o SplitFrom(Tail(s), "")
    ELSE SplitFrom(Tail(s), cur \o Head(s))
StrSplit(s) == Only({ SplitFrom(v, "") : v \in {s} })


\* str.split(sep) for a non-empty separator: always at least one piece.
RECURSIVE SplitOnFrom(_, _, _)
SplitOnFrom(s, sep, cur) ==
  IF s = "" THEN <<cur>>
  ELSE IF StartsWith(s, sep)
    THEN <<cur>> \o SplitOnFrom(SubSeq(s, Len(sep) + 1, Len(s)), sep, "")
    ELSE SplitOnFrom(Tail(s), sep, cur \o Head(s))
StrSplitOn(s, sep) == Only({ SplitOnFrom(v, sep, "") : v \in {s} })

SeqToSet(q) == {q[i] : i \in 1..Len(q)}
Last(q) == q[Len(q)]
RECURSIVE JoinWith(_, _)
JoinWith(q, sep) ==
  IF q = <<>> THEN ""
  ELSE IF Len(q) = 1 THEN q[1] ELSE q[1] \o sep \o JoinWith(Tail(q), sep)

(***************************************************************************)
(* The run state (AgentState): a function from the keys that are present   *)
(* to their values.  dict.get and LangGraph's per-key update.              *)
(***************************************************************************)
Get(st, k, d) == IF k \in DOMAIN st THEN st[k] ELSE d
Update(st, upd) ==
  Only({ [k \in (DOMAIN st) \cup (DOMAIN u) |-> IF k \in DOMAIN u THEN u[k] ELSE st[k]]
         : u \in {upd} })

\* The state every driver passes to invoke.
InitialState(q, fmt) ==
  [question |-> q, format_hint |-> fmt, retries |-> 0, sql_error |-> None]

(***************************************************************************)
(* Passage Index (LocalRetriever).                                         *)
(***************************************************************************)
\* The documents directory: files in glob order.
Docs0 == <<>>
Docs1 == << [filename |-> "product_policy.md", readable |-> TRUE,
             content |-> "# Returns\n14 days\n# Warranty\n1 year"] >>
Docs2 == << [filename |-> "kpi.md", readable |-> TRUE,
             content |-> "AOV is revenue per order\n\n  \n\nmargin"],
            [filename |-> "locked.md", readable |-> FALSE, content |-> ""],
            [filename |-> "Marketing_calendar.md", readable |-> TRUE,
             content |-> "# Summer 1997"] >>
\* A directory whose only file holds nothing but blank chunks.
DocsBlank == << [filename |-> "notes.md", readable |-> TRUE, content |-> " \n\n\t\n"] >>
\* A directory with one file of four header sections.
Docs3 == << [filename |-> "faq.md", readable |-> TRUE,
             content |-> "# a\nx\n# b\n# c\n\n# d"] >>
\* A directory with one file of two paragraphs and no header line.
Docs4 == << [filename |-> "catalog.md", readable |-> TRUE,
             content |-> "Item #1 is tea\n\nItem #2 is jam"] >>
DocSets == {Docs0, DocsBlank, Docs1, Docs2}

RawChunks(content) ==
  IF StrContains(content, "#")
    THEN Only({ [i \in 1..Len(parts) |-> IF i > 1 THEN "#" \o parts[i] ELSE parts[i]]
                : parts \in {StrSplitOn(content, "\n#")} })
    ELSE StrSplitOn(content, "\n\n")

CleanName(filename) == StrReplace(StrReplace(filename, ".md", ""), "_", " ")

\* A chunk loop that never advances the counter.
RECURSIVE FileChunks_NoIncrement(_, _, _)
FileChunks_NoIncrement(filename, raws, counter) ==
  IF raws = <<>> THEN <<>>
  ELSE IF StrStrip(Head(raws)) = "" THEN FileChunks_NoIncrement(filename, Tail(raws), counter)
  ELSE << [id |-> filename \o "::chunk" \o ToString(counter),
           text |-> "Source: " \o CleanName(filename) \o "\nContent: " \o StrStrip(Head(raws)),
           source |-> filename,
           clean_name |-> CleanName(filename)] >>
       \o FileChunks_NoIncrement(filename, Tail(raws), counter)

\* A chunk loop that does not skip blank chunks.
RECURSIVE FileChunks_KeepsBlank(_, _, _)
FileChunks_KeepsBlank(filename, raws, counter) ==
  IF raws = <<>> THEN <<>>
  ELSE << [id |-> filename \o "::chunk" \o ToString(counter),
           text |-> "Source: " \o CleanName(filename) \o "\nContent: " \o StrStrip(Head(raws)),
           source |-> filename,
           clean_name |-> CleanName(filename)] >>
       \o FileChunks_KeepsBlank(filename, Tail(raws), counter + 1)

\* The chunks of one file, numbered from `counter` on.
RECURSIVE FileChunks(_, _, _)
FileChunks(filename, raws, counter) ==
  IF raws = <<>> THEN <<>>
  ELSE IF StrStrip(Head(raws)) = "" THEN FileChunks(filename, Tail(raws), counter)
  ELSE << [id |-> filename \o "::chunk" \o ToString(counter),
           text |-> "Source: " \o CleanName(filename) \o "\nContent: " \o StrStrip(Head(raws)),
           source |-> filename,
           clean_name |-> CleanName(filename)] >>
       \o FileChunks(filename, Tail(raws), counter + 1)

RECURSIVE LoadAndIndex(_, _)
LoadAndIndex(files, counter) ==
  IF files = <<>> THEN <<>>
  ELSE IF ~Head(files).readable THEN LoadAndIndex(Tail(files), counter)
  ELSE LET cs == FileChunks(Head(files).filename, RawChunks(Head(files).content), counter)
       IN  cs \o LoadAndIndex(Tail(files), counter + Len(cs))

\* The filename boost per matching token.
Boost == 5
\* k of retriever_node's search call.
TopK == 3

\* BM25 scores come from the external scorer: one of these per chunk.
ScoreVals == {-6, 0, 1}

CountMatches(nameTokens, queryTokens) ==
  Cardinality({i \in 1..Len(nameTokens) : nameTokens[i] \in SeqToSet(queryTokens)})

\* One pass of the boosting loop: the final score of chunk ck with BM25 score `score`.
FinalScore(ck, score, tokenized_query) ==
  Only({ IF matches > 0 THEN score + matches * Boost ELSE score
         : matches \in {CountMatches(StrSplit(ck.clean_name), tokenized_query)} })

RECURSIVE BoostedFrom(_, _, _)
BoostedFrom(cks, scores, tokenized_query) ==
  IF cks = <<>> THEN <<>>
  ELSE <<FinalScore(Head(cks), Head(scores), tokenized_query)>>
       \o BoostedFrom(Tail(cks), Tail(scores), tokenized_query)

BoostedScores(cks, scores, query) ==
  Only({ BoostedFrom(cks, scores, tokenized_query)
         : tokenized_query \in {StrSplit(StrLower(query))} })

\* sorted(range(n), key=boosted, reverse=True): stable, so equal scores keep index order.
SortedDesc(b) ==
  LET n == Len(b)
      Before(i, j) == b[i] > b[j] \/ (b[i] = b[j] /\ i < j)
      Pos(i) == 1 + Cardinality({j \in 1..n : Before(j, i)})
  IN  [p \in 1..n |-> CHOOSE i \in 1..n : Pos(i) = p]

\* A results loop that also keeps chunks whose final score is zero.
RECURSIVE KeepPositive_KeepsZero(_, _, _)
KeepPositive_KeepsZero(idxs, cks, b) ==
  IF idxs = <<>> THEN <<>>
  ELSE (IF b[Head(idxs)] >= 0
          THEN << [id |-> cks[Head(idxs)].id, text |-> cks[Head(idxs)].text,
                   source |-> cks[Head(idxs)].source,
                   clean_name |-> cks[Head(idxs)].clean_name,
                   score |-> b[Head(idxs)]] >>
          ELSE <<>>)
       \o KeepPositive_KeepsZero(Tail(idxs), cks, b)

RECURSIVE KeepPositive(_, _, _)
KeepPositive(idxs, cks, b) ==
  IF idxs = <<>> THEN <<>>
  ELSE (IF b[Head(idxs)] > 0
          THEN << [id |-> cks[Head(idxs)].id, text |-> cks[Head(idxs)].text,
                   source |-> cks[Head(idxs)].source,
                   clean_name |-> cks[Head(idxs)].clean_name,
                   score |-> b[Head(idxs)]] >>
          ELSE <<>>)
       \o KeepPositive(Tail(idxs), cks, b)

\* self.bm25 is built only when the tokenized corpus is not empty; it stays None otherwise.
Bm25Built(cks) == cks # <<>>

\* search(query, k); `scores` is what bm25.get_scores returned.
Search(cks, scores, query, k) ==
  IF ~Bm25Built(cks) THEN <<>>
  ELSE Only({ KeepPositive(SubSeq(sorted, 1, IF k < Len(sorted) THEN k ELSE Len(sorted)),
                            cks, b)
              : <<b, sorted>> \in { <<bb, SortedDesc(bb)>>
                                    : bb \in {BoostedScores(cks, scores, query)} } })

(***************************************************************************)
(* Evidence Store (SQLiteTool.execute_query).  What sqlite3.connect and    *)
(* pandas.read_sql_query do is external: connect fails, the query fails,   *)
(* or rows come back.                                                      *)
(***************************************************************************)
\* Longest result set the engine returns in the model.
MaxRows == 1
RECURSIVE RowSeqs(_)
RowSeqs(n) == IF n = 0 THEN {<<>>} ELSE RowSeqs(n - 1) \cup {[i \in 1..n |-> "row"]}

EngineErrors == {"", "no such table: Order Details"}
ConnectErrors == {"unable to open database file"}
EngineOutcomes ==
  {[kind |-> "ok", rows |-> r, msg |-> ""] : r \in RowSeqs(MaxRows)}
  \cup {[kind |-> "query_fail", rows |-> <<>>, msg |-> m] : m \in EngineErrors}
  \cup {[kind |-> "connect_fail", rows |-> <<>>, msg |-> m] : m \in ConnectErrors}

\* conn after the try body: None if connect raised, an open connection otherwise.
ConnAfterTry(eng) == IF eng.kind = "connect_fail" THEN "none" ELSE "open"

\* The finally clause: `if conn: conn.close()`.
FinallyClause(conn) == IF conn = "open" THEN "closed" ELSE conn

\* An except clause that catches query errors only: a failed connect propagates.
ExceptClause_MissesConnect(eng) ==
  [results |-> <<>>, error |-> Str(eng.msg), raised |-> (eng.kind = "connect_fail"),
   excPath |-> TRUE]

\* The except clause: `except Exception as e: return [], str(e)`.
ExceptClause(eng) ==
  [results |-> <<>>, error |-> Str(eng.msg), raised |-> FALSE, excPath |-> TRUE]

\* execute_query(query) with the engine behaving as `eng`: the returned pair, whether the
\* call raised to its caller instead, whether it left through the except clause, and the
\* connection it leaves behind.
ExecuteQuery(query, eng) ==
  LET out == IF eng.kind = "ok"
               THEN [results |-> eng.rows, error |-> None, raised |-> FALSE, excPath |-> FALSE]
               ELSE ExceptClause(eng)
  IN  [results |-> out.results, error |-> out.error, raised |-> out.raised,
       excPath |-> out.excPath, conn |-> FinallyClause(ConnAfterTry(eng))]

(***************************************************************************)
(* The generator (dspy modules): outputs drawn from small sets; a call may *)
(* also raise.                                                             *)
(***************************************************************************)
Raises == "<raises>"
\* Stands for the three-backquote code fence delimiter.
Fence == "~~~"

Questions == {"what is the product policy on returns", "Total revenue in Summer 1997"}
FormatHints == {"str"}
RouterOutputs == {"sql", "SQL", "rag", " Rag\n", "hybrid", "HYBRID ", "", "sq l", "sql."}
PlannerOutputs == {"", "OrderDate from 1997-06-01 to 1997-06-30"}
GenOutputs ==
  { Fence \o "sql\nSELECT * FROM Orders /* all */\n" \o Fence,
    "SELECT COUNT(1) FROM \"Order Details\" -- all",
    "SELECT x FROM OrderDetails, Suppliers WHERE d BETWE0N 1 AND 2",
    "" }
SynthOutcomes ==
  { [kind |-> "ok", final_answer |-> "42", explanation |-> "from rows", err |-> ""],
    [kind |-> "raise", final_answer |-> "", explanation |-> "",
     err |-> "LM Response: {\"final_answer\": \"14 days\", \"explanicn\": \"policy\"}"],
    [kind |-> "raise", final_answer |-> "", explanation |-> "",
     err |-> "parse failure. LM Response: {oops}"],
    [kind |-> "raise", final_answer |-> "", explanation |-> "",
     err |-> "LM Response: {\"reasoning\": \"r\"} (truncated)"],
    [kind |-> "raise", final_answer |-> "", explanation |-> "", err |-> "429 quota"] }

(***************************************************************************)
(* Node bodies of HybridAgent.                                             *)
(***************************************************************************)
Labels == {"sql", "rag", "hybrid"}

\* A router_node that normalises the label but does not validate it.
Classify_NoCoercion(out) == StrStrip(StrLower(out))

\* A router_node that falls back to the cheapest route for an unknown label.
Classify_DefaultSql(out) ==
  Only({ IF cls \notin Labels THEN "sql" ELSE cls : cls \in {StrStrip(StrLower(out))} })

\* router_node: normalise the label, coerce anything else to hybrid.
Classify(out) ==
  Only({ IF cls \notin Labels THEN "hybrid" ELSE cls : cls \in {StrStrip(StrLower(out))} })

\* A post-processing that lacks the rule for the quoted table name.
CleanSql_NoQuotedRule(raw) ==
  LET s0 == StrStrip(StrReplace(StrReplace(raw, Fence \o "sql", ""), Fence, ""))
      s1 == StrReplace(s0, "BETWE0N", "BETWEEN")
      s2 == StrReplace(s1, "OrderDetails", "order_details")
      s4 == StrReplace(s2, "Orders", "orders")
      s5 == StrReplace(s4, "Products", "products")
  IN  StrReplace(s5, "Categories", "categories")

\* sql_gen_node's post-processing of pred.sql_query.
CleanSql(raw) ==
  LET s0 == StrStrip(StrReplace(StrReplace(raw, Fence \o "sql", ""), Fence, ""))
      s1 == StrReplace(s0, "BETWE0N", "BETWEEN")
      s2 == StrReplace(s1, "OrderDetails", "order_details")
      s3 == StrReplace(s2, "\"Order Details\"", "order_details")
      s4 == StrReplace(s3, "Orders", "orders")
      s5 == StrReplace(s4, "Products", "products")
  IN  StrReplace(s5, "Categories", "categories")

\* A sql_exec_node that takes an empty result set for a failure.
ExecUpdate_EmptyIsFailure(st, ret) ==
  IF Truthy(ret.error) \/ ret.results = <<>>
    THEN [sql_error |-> IF IsNone(ret.error) THEN Str("no rows") ELSE ret.error,
          sql_result |-> <<>>, retries |-> Get(st, "retries", 0) + 1]
    ELSE [sql_result |-> ret.results, sql_error |-> None]

\* A sql_exec_node whose success branch returns the rows and nothing else.
ExecUpdate_KeepsError(st, ret) ==
  IF Truthy(ret.error)
    THEN [sql_error |-> ret.error, sql_result |-> <<>>, retries |-> Get(st, "retries", 0) + 1]
    ELSE [sql_result |-> ret.results]

\* A sql_exec_node that drops the planner's constraints when the query fails.
ExecUpdate_ClearsPlan(st, ret) ==
  IF Truthy(ret.error)
    THEN [sql_error |-> ret.error, sql_result |-> <<>>, retries |-> Get(st, "retries", 0) + 1,
          plan_requirements |-> ""]
    ELSE [sql_result |-> ret.results, sql_error |-> None]

\* sql_exec_node's state update for what execute_query returned.
ExecUpdate(st, ret) ==
  IF Truthy(ret.error)
    THEN [sql_error |-> ret.error, sql_result |-> <<>>, retries |-> Get(st, "retries", 0) + 1]
    ELSE [sql_result |-> ret.results, sql_error |-> None]

\* The retry ceiling of check_sql_status.
RetryCeiling == 2
\* A check_sql_status that forgets the ceiling.
CheckSqlStatus_NoCeiling(st) ==
  IF Truthy(Get(st, "sql_error", None)) THEN "retry" ELSE "done"

\* check_sql_status: the edge taken after sql_exec.
CheckSqlStatus(st) ==
  IF Truthy(Get(st, "sql_error", None)) /\ Get(st, "retries", 0) < RetryCeiling
    THEN "retry" ELSE "done"

\* A retry edge wired to the planner instead of the Query Synthesizer.
ExecEdge_RetryViaPlanner(st) ==
  IF CheckSqlStatus(st) = "retry" THEN "planner" ELSE "synthesizer"

\* An edge after sql_exec without the repair loop.
ExecEdge_NoRetry(st) == "synthesizer"

\* A retry edge that runs the executor again without a new query.
ExecEdge_RetryExec(st) == IF CheckSqlStatus(st) = "retry" THEN "sql_exec" ELSE "synthesizer"

\* The edge after sql_exec: {"retry": "sql_gen", "done": "synthesizer"}.
ExecEdge(st) == IF CheckSqlStatus(st) = "retry" THEN "sql_gen" ELSE "synthesizer"

\* A retriever edge that ends every run that is not hybrid without synthesis.
RetrieverEdge_SkipsSynthesis(st) == IF st["classification"] = "hybrid" THEN "planner" ELSE "END"

\* A retriever edge that sends every run on to the planner.
RetrieverEdge_AlwaysPlanner(st) == "planner"

\* A router edge that sends every run through retrieval.
RouterEdge_AlwaysRetriever(st) == "retriever"

\* The edge after router and the edge after retriever.
RouterEdge(st) == IF st["classification"] = "sql" THEN "sql_gen" ELSE "retriever"
RetrieverEdge(st) == IF st["classification"] = "hybrid" THEN "planner" ELSE "synthesizer"

\* re.search(r'LM Response: ({.*})', err, DOTALL): leftmost start, greedy to the last brace.
RegexPayload(err) ==
  LET pre == "LM Response: {"
      starts == {i \in 1..Len(err) :
                   /\ i + Len(pre) - 1 <= Len(err)
                   /\ SubSeq(err, i, i + Len(pre) - 1) = pre
                   /\ \E j \in (i + Len(pre))..Len(err) : CharAt(err, j) = "}"}
  IN  IF starts = {} THEN None
      ELSE LET i == CHOOSE a \in starts : \A b \in starts : a <= b
               j == CHOOSE a \in 1..Len(err) :
                      /\ CharAt(err, a) = "}"
                      /\ \A b \in 1..Len(err) : CharAt(err, b) = "}" => b <= a
           IN  Str(SubSeq(err, i + Len(pre) - 1, j))

\* json.loads on the payloads of the model.
JsonLoads(raw) ==
  IF raw = "{\"final_answer\": \"14 days\", \"explanation\": \"policy\"}"
    THEN [ok |-> TRUE, data |-> [final_answer |-> "14 days", explanation |-> "policy"]]
  ELSE IF raw = "{\"final_answer\": \"14 days\", \"explanicn\": \"policy\"}"
    THEN [ok |-> TRUE, data |-> [final_answer |-> "14 days", explanicn |-> "policy"]]
  ELSE IF raw = "{\"reasoning\": \"r\"}"
    THEN [ok |-> TRUE, data |-> [reasoning |-> "r"]]
    ELSE [ok |-> FALSE, data |-> <<>>]

SentinelAnswer == "Error generating answer."
SentinelExplanation == "Failed to parse model output."

\* A synthesizer_node whose recovery parses the payload without correcting the typo.
SynthAnswer_NoTypoFix(outcome) ==
  IF outcome.kind = "ok"
    THEN [final_answer |-> outcome.final_answer, explanation |-> outcome.explanation]
    ELSE Only({ IF parsed.ok
                  THEN [final_answer |-> Get(parsed.data, "final_answer", SentinelAnswer),
                        explanation |-> Get(parsed.data, "explanation",
                                            Get(parsed.data, "reasoning", SentinelExplanation))]
                  ELSE [final_answer |-> SentinelAnswer, explanation |-> SentinelExplanation]
                : parsed \in { IF IsNone(m) THEN [ok |-> FALSE, data |-> <<>>]
                               ELSE JsonLoads(m.s)
                               : m \in {RegexPayload(outcome.err)} } })

\* The (final_answer, explanation) pair of synthesizer_node.
SynthAnswer(outcome) ==
  IF outcome.kind = "ok"
    THEN [final_answer |-> outcome.final_answer, explanation |-> outcome.explanation]
    ELSE Only({ IF parsed.ok
                  THEN [final_answer |-> Get(parsed.data, "final_answer", SentinelAnswer),
                        explanation |-> Get(parsed.data, "explanation",
                                            Get(parsed.data, "reasoning", SentinelExplanation))]
                  ELSE [final_answer |-> SentinelAnswer, explanation |-> SentinelExplanation]
                : parsed \in { IF IsNone(m) THEN [ok |-> FALSE, data |-> <<>>]
                               ELSE JsonLoads(StrReplace(m.s, "explanicn", "explanation"))
                               : m \in {RegexPayload(outcome.err)} } })

\* The tables and the view that get_schema_info always describes to the Query Synthesizer.
KnownTables ==
  <<"Orders", "Products", "Categories", "Customers", "Suppliers", "Employees", "Shippers",
    "order_details">>

\* The names synthesizer_node looks for in the query.
CitedTables == <<"orders", "order_details", "products", "categories", "customers">>

\* A synthesizer_node that cites every table it knows once there is a query.
Citations_AllTables(st) ==
  LET cks == Get(st, "rag_chunks", <<>>)
  IN  {cks[i].id : i \in 1..Len(cks)}
      \cup (IF Get(st, "sql_query", "") # "" THEN SeqToSet(CitedTables) ELSE {})

\* A synthesizer_node that cites tables only when the query returned rows.
Citations_OnlyWithRows(st) ==
  LET cks == Get(st, "rag_chunks", <<>>)
      sql_q == Get(st, "sql_query", "")
  IN  {cks[i].id : i \in 1..Len(cks)}
      \cup (IF sql_q # "" /\ Get(st, "sql_result", <<>>) # <<>>
              THEN UNION { {CitedTables[i] : i \in {j \in 1..Len(CitedTables) :
                              StrContains(lowered, StrLower(CitedTables[j]))}}
                           : lowered \in {StrLower(sql_q)} }
              ELSE {})

\* A synthesizer_node that cites passages only when there is no query.
Citations_PassagesUnlessQuery(st) ==
  LET cks == Get(st, "rag_chunks", <<>>)
      sql_q == Get(st, "sql_query", "")
  IN  IF sql_q # ""
        THEN UNION { {CitedTables[i] : i \in {j \in 1..Len(CitedTables) :
                        StrContains(lowered, StrLower(CitedTables[j]))}}
                     : lowered \in {StrLower(sql_q)} }
        ELSE {cks[i].id : i \in 1..Len(cks)}

\* The citations of synthesizer_node: list(set(...)).
Citations(st) ==
  LET cks == Get(st, "rag_chunks", <<>>)
      sql_q == Get(st, "sql_query", "")
  IN  {cks[i].id : i \in 1..Len(cks)}
      \cup (IF sql_q # ""
              THEN UNION { {CitedTables[i] : i \in {j \in 1..Len(CitedTables) :
                              StrContains(lowered, StrLower(CitedTables[j]))}}
                           : lowered \in {StrLower(sql_q)} }
              ELSE {})

\* What synthesizer_node returns when the generator call ends as `outcome`.
SynthUpdate(st, outcome) ==
  Only({ [final_answer |-> ans.final_answer, explanation |-> ans.explanation,
          citations |-> Citations(st)]
         : ans \in {SynthAnswer(outcome)} })

(***************************************************************************)
(* One invocation of the compiled graph.                                   *)
(***************************************************************************)
VARIABLES
  node,       \* the node the graph runs next; "END" after the last edge, "RAISED" if invoke raised
  state,      \* the run state
  docs,       \* the files of the documents directory the retriever was built from
  chunks,     \* retriever.chunks, built once by _load_and_index
  trace,      \* history: the nodes invoked so far, in order
  genArgs,    \* history: previous_error of every Query Synthesizer call
  storeRets,  \* history: every execute_query call (engine behaviour, what it returned)
  synthOuts,  \* history: how every generator call of the synthesizer ended
  executed,   \* history: the query text of the latest execute_query call (None before it)
  repairCall, \* a direct use of the Query Synthesizer's post-processing: input and results
  searchCall, \* a direct call of LocalRetriever.search: arguments and result
  synthPair,  \* two runs side by side at answer synthesis
  classifyCall, \* a direct use of the router's label post-processing: input and result
  batch,      \* the batch driver: input records, position, attempts, output records
  conc,       \* two runs in progress at once on one agent
  views       \* the database's views and the SQLiteTool initializations working on it

vars == <<node, state, docs, chunks, trace, genArgs, storeRets, synthOuts, executed,
          repairCall, searchCall, synthPair, classifyCall, batch, conc, views>>
\* The variables of the direct calls, which a run of the graph leaves alone.
direct == <<repairCall, searchCall, synthPair, classifyCall, batch, conc, views>>
\* No direct call is in progress.
NoCall == <<>>

Init ==
  /\ node = "router"
  /\ \E q \in Questions, fmt \in FormatHints : state = InitialState(q, fmt)
  /\ \E d \in DocSets : docs = d /\ chunks = LoadAndIndex(d, 0)
  /\ trace = <<>>
  /\ genArgs = <<>>
  /\ storeRets = <<>>
  /\ synthOuts = <<>>
  /\ executed = None
  /\ repairCall = NoCall /\ searchCall = NoCall /\ synthPair = NoCall
  /\ classifyCall = NoCall /\ batch = NoCall /\ conc = NoCall /\ views = NoCall

router_node ==
  /\ node = "router"
  /\ trace' = Append(trace, "router")
  /\ \E out \in RouterOutputs \cup {Raises} :
       IF out = Raises
         THEN /\ node' = "RAISED"
              /\ state' = state
         ELSE /\ state' = Update(state, [classification |-> Classify(out)])
              /\ node' = RouterEdge(state')
  /\ UNCHANGED <<docs, chunks, genArgs, storeRets, synthOuts, executed, direct>>

retriever_node ==
  /\ node = "retriever"
  /\ trace' = Append(trace, "retriever")
  /\ \E scores \in [1..Len(chunks) -> ScoreVals] :
       state' = Update(state, [rag_chunks |-> Search(chunks, scores, state["question"], TopK)])
  /\ node' = RetrieverEdge(state')
  /\ UNCHANGED <<docs, chunks, genArgs, storeRets, synthOuts, executed, direct>>

planner_node ==
  /\ node = "planner"
  /\ trace' = Append(trace, "planner")
  /\ \E out \in PlannerOutputs \cup {Raises} :
       IF out = Raises
         THEN /\ node' = "RAISED"
              /\ state' = state
         ELSE /\ state' = Update(state, [plan_requirements |-> out])
              /\ node' = "sql_gen"
  /\ UNCHANGED <<docs, chunks, genArgs, storeRets, synthOuts, executed, direct>>

sql_gen_node ==
  /\ node = "sql_gen"
  /\ trace' = Append(trace, "sql_gen")
  /\ genArgs' = Append(genArgs, Get(state, "sql_error", Str("")))
  /\ \E out \in GenOutputs \cup {Raises} :
       IF out = Raises
         THEN /\ node' = "RAISED"
              /\ state' = state
         ELSE /\ state' = Update(state, [sql_query |-> CleanSql(out)])
              /\ node' = "sql_exec"
  /\ UNCHANGED <<docs, chunks, storeRets, synthOuts, executed, direct>>

sql_exec_node ==
  /\ node = "sql_exec"
  /\ trace' = Append(trace, "sql_exec")
  /\ \E eng \in EngineOutcomes :
       \E ret \in {ExecuteQuery(state["sql_query"], eng)} :
           /\ storeRets' = Append(storeRets, [eng |-> eng, ret |-> ret])
           /\ executed' = Str(state["sql_query"])
           /\ IF ret.raised
                THEN /\ node' = "RAISED"
                     /\ state' = state
                ELSE /\ state' = Update(state, ExecUpdate(state, ret))
                     /\ node' = ExecEdge(state')
  /\ UNCHANGED <<docs, chunks, genArgs, synthOuts, direct>>

synthesizer_node ==
  /\ node = "synthesizer"
  /\ trace' = Append(trace, "synthesizer")
  /\ \E outcome \in SynthOutcomes :
       /\ synthOuts' = Append(synthOuts, outcome)
       /\ state' = Update(state, SynthUpdate(state, outcome))
  /\ node' = "END"
  /\ UNCHANGED <<docs, chunks, genArgs, storeRets, executed, direct>>

Next ==
  \/ router_node
  \/ retriever_node
  \/ planner_node
  \/ sql_gen_node
  \/ sql_exec_node
  \/ synthesizer_node

Spec == Init /\ [][Next]_vars

\* The graph runner takes the next step whenever there is one.
FairSpec == Spec /\ WF_vars(Next)

(***************************************************************************)
(* Two runs side by side at answer synthesis.  Each run state is built     *)
(* with the nodes' own updates, as a run that took its route to the        *)
(* synthesizer would have built it.                                        *)
(***************************************************************************)
\* The main run is not in progress.
GraphIdle ==
  /\ node = "idle" /\ state = <<>> /\ docs = <<>> /\ chunks = <<>>
  /\ trace = <<>> /\ genArgs = <<>> /\ storeRets = <<>> /\ synthOuts = <<>>
  /\ executed = None
graphVars == <<node, state, docs, chunks, trace, genArgs, storeRets, synthOuts, executed>>

PairQuestion == "Total revenue in Summer 1997"
AfterRouter == { Update(InitialState(PairQuestion, "str"), [classification |-> l]) : l \in Labels }
AfterRetriever(st) ==
  IF RouterEdge(st) # "retriever" THEN {st}
  ELSE LET cks == LoadAndIndex(Docs1, 0)
       IN  { Update(st, [rag_chunks |-> Search(cks, sc, st["question"], TopK)])
             : sc \in [1..Len(cks) -> ScoreVals] }
AfterPlanner(st) ==
  IF "rag_chunks" \in DOMAIN st /\ RetrieverEdge(st) = "planner"
    THEN { Update(st, [plan_requirements |-> "OrderDate from 1997-06-01 to 1997-06-30"]) }
    ELSE {st}
\* The last generation and execution of a run that had `r` failed attempts before.
AfterExec(st) ==
  IF st["classification"] = "rag" THEN {st}
  ELSE { s2 \in { Update(s1, ExecUpdate(s1, ExecuteQuery(s1["sql_query"], eng)))
                  : s1 \in { Update(st, [sql_query |-> CleanSql(gen), retries |-> r])
                             : gen \in GenOutputs, r \in 0..(RetryCeiling - 1) },
                    eng \in EngineOutcomes }
         : ExecEdge(s2) = "synthesizer" }
SynthTimeStates ==
  UNION { AfterExec(s3) : s3 \in UNION { AfterPlanner(s2)
                                         : s2 \in UNION { AfterRetriever(s1) : s1 \in AfterRouter } } }

SameEvidence(a, b) ==
  /\ Get(a, "rag_chunks", <<>>) = Get(b, "rag_chunks", <<>>)
  /\ Get(a, "sql_query", "") = Get(b, "sql_query", "")

PairInit ==
  /\ GraphIdle
  /\ repairCall = NoCall /\ searchCall = NoCall
  /\ classifyCall = NoCall /\ batch = NoCall /\ conc = NoCall /\ views = NoCall
  /\ \E a \in SynthTimeStates, b \in SynthTimeStates :
       /\ SameEvidence(a, b)
       /\ synthPair = << [st |-> a, done |-> FALSE], [st |-> b, done |-> FALSE] >>

\* synthesizer_node in one of the two runs.
synthesizer_in_pair ==
  /\ \E i \in 1..2, outcome \in SynthOutcomes :
       /\ ~synthPair[i].done
       /\ synthPair' = [synthPair EXCEPT
                          ![i] = [st |-> Update(synthPair[i].st,
                                                SynthUpdate(synthPair[i].st, outcome)),
                                  done |-> TRUE]]
  /\ UNCHANGED <<graphVars, repairCall, searchCall, classifyCall, batch, conc, views>>

PairNext == synthesizer_in_pair
PairSpec == PairInit /\ [][PairNext]_vars

(***************************************************************************)
(* The Query Synthesizer's post-processing on its own: a generator output  *)
(* put together from fragments, post-processed, and post-processed again.  *)
(***************************************************************************)
\* Longest generator output, in fragments.
MaxFrags == 2
Fragments ==
  { Fence, "sql", "\"Order Details\"", "OrderDetails", "Orders", "Products", "Categories",
    "BETWE0N", "Order", "Details", " ", "SELECT x", "-- c" }
RECURSIVE FragmentTexts(_)
FragmentTexts(n) ==
  IF n = 0 THEN {""}
  ELSE LET shorter == FragmentTexts(n - 1)
       IN  shorter \cup { s \o f : s \in shorter, f \in Fragments }

RepairInit ==
  /\ GraphIdle
  /\ searchCall = NoCall /\ synthPair = NoCall
  /\ classifyCall = NoCall /\ batch = NoCall /\ conc = NoCall /\ views = NoCall
  /\ \E raw \in FragmentTexts(MaxFrags) : repairCall = [raw |-> raw, outs |-> <<>>]

\* One more application of the post-processing, to the previous result.
apply_repair ==
  /\ Len(repairCall.outs) < 2
  /\ \E input \in {IF repairCall.outs = <<>> THEN repairCall.raw ELSE Last(repairCall.outs)} :
       repairCall' = [repairCall EXCEPT !.outs = Append(@, CleanSql(input))]
  /\ UNCHANGED <<graphVars, searchCall, synthPair, classifyCall, batch, conc, views>>

RepairNext == apply_repair
RepairSpec == RepairInit /\ [][RepairNext]_vars

(***************************************************************************)
(* LocalRetriever.search called directly, with any k.                      *)
(***************************************************************************)
\* Largest k of a direct search call.
MaxK == 2
SearchQueries == Questions \cup {"KPI definition of AOV", "Marketing calendar 1997"}
SearchDocSets == DocSets \cup {Docs3, Docs4}

SearchInit ==
  /\ node = "idle" /\ state = <<>>
  /\ trace = <<>> /\ genArgs = <<>> /\ storeRets = <<>> /\ synthOuts = <<>>
  /\ executed = None
  /\ repairCall = NoCall /\ synthPair = NoCall
  /\ classifyCall = NoCall /\ batch = NoCall /\ conc = NoCall /\ views = NoCall
  /\ \E d \in SearchDocSets : docs = d /\ chunks = LoadAndIndex(d, 0)
  /\ \E q \in SearchQueries, k \in 0..MaxK :
       searchCall = [query |-> q, k |-> k, called |-> FALSE, scores |-> <<>>, result |-> <<>>]

\* search(query, k) on the retriever; the scorer returns `scores`.
search_call ==
  /\ ~searchCall.called
  /\ \E scores \in [1..Len(chunks) -> ScoreVals] :
       searchCall' = [searchCall EXCEPT
                        !.called = TRUE, !.scores = scores,
                        !.result = Search(chunks, scores, searchCall.query, searchCall.k)]
  /\ UNCHANGED <<graphVars, repairCall, synthPair, classifyCall, batch, conc, views>>

SearchNext == search_call
SearchSpec == SearchInit /\ [][SearchNext]_vars

(***************************************************************************)
(* The batch drivers: main of run_agent_hybrid.py ("cli") and the Batch    *)
(* Evaluation loop of app.py ("app").  A graph invocation is taken by its  *)
(* result: the output state of a finished run, or an exception.            *)
(***************************************************************************)
\* Longest batch, in records.
MaxBatch == 2
\* max_retries of the app's rate-limit loop, and its sleep in seconds.
MaxInvocations == 3
RateLimitSleep == 60

\* Input files of up to n records; a record is complete, or lacks the question field.
BatchInputs(n) ==
  UNION { { [i \in 1..len |-> [id |-> "q" \o ToString(i), complete |-> c[i]]]
            : c \in [1..len -> BOOLEAN] }
          : len \in 0..n }

\* Output states of finished runs: a rag run with passages, an sql run with rows, sql
\* runs that exhausted their retries; each with a parsed or a sentinel answer.
BatchOutputStates ==
  { Update(s, SynthUpdate(s, o))
    : s \in { x \in SynthTimeStates :
               \/ /\ x["classification"] = "rag"
                  /\ Len(x["rag_chunks"]) = 2
                  /\ \A i \in 1..2 : x["rag_chunks"][i].score = 1
               \/ /\ x["classification"] = "sql"
                  /\ StrContains(x["sql_query"], "orders")
                  /\ \/ x["retries"] = 0 /\ x["sql_result"] # <<>>
                     \/ /\ x["retries"] = RetryCeiling
                        /\ x["sql_error"] = Str("no such table: Order Details") },
      o \in { x \in SynthOutcomes : x.kind = "ok" } }
\* Error texts of invocations that raise.
InvokeErrors == {"429 Too Many Requests", "Quota exceeded for model", "connection reset"}
InvokeOutcomes ==
  { [kind |-> "ok", out |-> s, err |-> ""] : s \in BatchOutputStates }
  \cup { [kind |-> "raise", out |-> <<>>, err |-> e] : e \in InvokeErrors }

\* The sql field of a batch output record: output_state.get("sql_query", "").
BatchSql(st) == Get(st, "sql_query", "")

\* The confidence heuristic, in tenths.
Confidence(out) ==
  IF Truthy(Get(out, "sql_error", None)) THEN 1
  ELSE IF Get(out, "classification", "") = "sql" /\ Get(out, "sql_result", <<>>) # <<>> THEN 9
  ELSE 7

\* The record of a completed run (format_hint "str": the answer is taken as it is).
SuccessRecord(qid, out) ==
  [id |-> qid, final_answer |-> Str(Get(out, "final_answer", "")),
   sql |-> BatchSql(out), confidence |-> Confidence(out),
   explanation |-> Get(out, "explanation", ""), citations |-> Get(out, "citations", {})]

\* An error record that puts the error text where the answer goes.
ErrorRecord_AnswerText(driver, qid, err) ==
  IF driver = "cli"
    THEN [id |-> qid, final_answer |-> Str(err), error |-> err]
    ELSE [id |-> qid, error |-> err, final_answer |-> Str(err), confidence |-> 0,
          citations |-> {}]

\* The record of a failed question, per driver.
ErrorRecord(driver, qid, err) ==
  IF driver = "cli"
    THEN [id |-> qid, final_answer |-> None, error |-> err]
    ELSE [id |-> qid, error |-> err, final_answer |-> None, confidence |-> 0, citations |-> {}]

\* A rate-limit test on the error text as it is, not lower-cased.
RateLimited_CaseSensitive(err) == StrContains(err, "429") \/ StrContains(err, "quota")

\* The app's test for a rate-limit error: "429" in err_str or "quota" in err_str,
\* err_str being the lower-cased error text.
RateLimited(err) ==
  Only({ StrContains(low, "429") \/ StrContains(low, "quota") : low \in {StrLower(err)} })

BatchInit ==
  /\ GraphIdle
  /\ repairCall = NoCall /\ searchCall = NoCall /\ synthPair = NoCall
  /\ classifyCall = NoCall /\ conc = NoCall /\ views = NoCall
  /\ \E driver \in {"cli", "app"}, input \in BatchInputs(MaxBatch) :
       batch = [driver |-> driver, input |-> input, pos |-> 1, results |-> <<>>,
                attempts |-> <<>>, sleeps |-> <<>>, log |-> <<>>,
                aborted |-> FALSE, written |-> FALSE, output |-> <<>>]

\* The record, if any, that is in process.
BatchCurrent == batch.input[batch.pos]
BatchRunning == ~batch.aborted /\ ~batch.written /\ batch.pos <= Len(batch.input)

\* The question is finished with record `rec`: on to the next one.
BatchFinish(rec, attempts, sleeps) ==
  [batch EXCEPT !.results = Append(@, rec), !.pos = @ + 1,
                !.attempts = <<>>, !.sleeps = <<>>,
                !.log = Append(@, [id |-> BatchCurrent.id, attempts |-> attempts,
                                   sleeps |-> sleeps, record |-> rec])]

\* One iteration of main's loop: the fields are read outside the try, the graph is
\* invoked inside it.
cli_record ==
  /\ BatchRunning /\ batch.driver = "cli"
  /\ IF ~BatchCurrent.complete
       THEN batch' = [batch EXCEPT !.aborted = TRUE]
       ELSE \E o \in InvokeOutcomes :
              batch' = BatchFinish(IF o.kind = "ok" THEN SuccessRecord(BatchCurrent.id, o.out)
                                   ELSE ErrorRecord("cli", BatchCurrent.id, o.err),
                                   <<o>>, <<>>)
  /\ UNCHANGED <<graphVars, repairCall, searchCall, synthPair, classifyCall, conc, views>>

\* One pass of the app's retry loop for the current item: the fields are read and the
\* graph is invoked inside the outer try.
app_attempt ==
  /\ BatchRunning /\ batch.driver = "app"
  /\ IF ~BatchCurrent.complete
       THEN batch' = BatchFinish(ErrorRecord("app", BatchCurrent.id, "'question'"), <<>>, <<>>)
       ELSE \E o \in InvokeOutcomes :
              LET attempts == Append(batch.attempts, o)
              IN  IF o.kind = "ok"
                    THEN batch' = BatchFinish(SuccessRecord(BatchCurrent.id, o.out),
                                              attempts, batch.sleeps)
                  ELSE IF RateLimited(o.err) /\ Len(attempts) < MaxInvocations
                    THEN batch' = [batch EXCEPT !.attempts = attempts,
                                                !.sleeps = Append(@, RateLimitSleep)]
                    ELSE batch' = BatchFinish(ErrorRecord("app", BatchCurrent.id, o.err),
                                              attempts, batch.sleeps)
  /\ UNCHANGED <<graphVars, repairCall, searchCall, synthPair, classifyCall, conc, views>>

\* After the loop the results are written out (cli) or offered for download (app).
batch_write ==
  /\ ~batch.aborted /\ ~batch.written /\ batch.pos = Len(batch.input) + 1
  /\ batch' = [batch EXCEPT !.written = TRUE, !.output = batch.results]
  /\ UNCHANGED <<graphVars, repairCall, searchCall, synthPair, classifyCall, conc, views>>

BatchNext == cli_record \/ app_attempt \/ batch_write
BatchSpec == BatchInit /\ [][BatchNext]_vars

(***************************************************************************)
(* The router's label post-processing, applied to what the classifier      *)
(* returned: a label word in some letter case, or another word, with       *)
(* whitespace around it.                                                   *)
(***************************************************************************)
LabelSpellings ==
  { [word |-> "sql", label |-> "sql"], [word |-> "SQL", label |-> "sql"],
    [word |-> "Sql", label |-> "sql"],
    [word |-> "rag", label |-> "rag"], [word |-> "RAG", label |-> "rag"],
    [word |-> "Rag", label |-> "rag"],
    [word |-> "hybrid", label |-> "hybrid"], [word |-> "HYBRID", label |-> "hybrid"],
    [word |-> "Hybrid", label |-> "hybrid"],
    [word |-> "", label |-> "invalid"], [word |-> "sq l", label |-> "invalid"],
    [word |-> "sql.", label |-> "invalid"], [word |-> "rags", label |-> "invalid"],
    [word |-> "SQL or RAG", label |-> "invalid"] }
LabelPadding == {"", " ", "\n", "\t "}

ClassifyInit ==
  /\ GraphIdle
  /\ repairCall = NoCall /\ searchCall = NoCall /\ synthPair = NoCall
  /\ batch = NoCall /\ conc = NoCall /\ views = NoCall
  /\ \E q \in Questions, sp \in LabelSpellings, l \in LabelPadding, r \in LabelPadding :
       classifyCall = [question |-> q, raw |-> l \o sp.word \o r, label |-> sp.label,
                       out |-> None]

\* router_node's handling of result.classification; the question takes no part in it.
classify_call ==
  /\ IsNone(classifyCall.out)
  /\ classifyCall' = [classifyCall EXCEPT !.out = Str(Classify(classifyCall.raw))]
  /\ UNCHANGED <<graphVars, repairCall, searchCall, synthPair, batch, conc, views>>

ClassifyNext == classify_call
ClassifySpec == ClassifyInit /\ [][ClassifyNext]_vars

(***************************************************************************)
(* SQLiteTool.__init__ run by several initializations at once on one       *)
(* database.  The database is the list of its views; a statement of the    *)
(* engine is atomic.                                                       *)
(***************************************************************************)
\* The number of initializations in progress at once.
MaxInits == 2
ViewName == "order_details"
ViewSql == "SELECT OrderID, ProductID, UnitPrice, Quantity, Discount FROM \"Order Details\""
\* The views the database may hold before the first initialization.
Databases ==
  { <<>>,
    << [name |-> ViewName, sql |-> ViewSql] >>,
    << [name |-> ViewName, sql |-> "SELECT * FROM \"Order Details\""] >> }
\* What the engine may answer to the statement, and to commit.
StatementOutcomes == {"ok", "database is locked", "attempt to write a readonly database"}

HasView(db, name) == \E j \in 1..Len(db) : db[j].name = name

\* A creation that replaces the view (DROP VIEW IF EXISTS, then CREATE VIEW).
CreateViewIfNotExists_Replaces(db, name, sql) ==
  LET Other(v) == v.name # name
  IN  SelectSeq(db, Other) \o << [name |-> name, sql |-> sql] >>

\* CREATE VIEW IF NOT EXISTS name AS sql.
CreateViewIfNotExists(db, name, sql) ==
  IF HasView(db, name) THEN db ELSE Append(db, [name |-> name, sql |-> sql])

\* An except clause that prints the warning and raises again.
ViewExcept_Reraises(self, msg) ==
  [self EXCEPT !.pc = "failed", !.warning = Str(msg), !.raised = TRUE]

\* except Exception as e: print the warning; __init__ returns.
ViewExcept(self, msg) == [self EXCEPT !.pc = "built", !.warning = Str(msg)]

ViewInit ==
  /\ GraphIdle
  /\ repairCall = NoCall /\ searchCall = NoCall /\ synthPair = NoCall
  /\ classifyCall = NoCall /\ batch = NoCall /\ conc = NoCall
  /\ \E db \in Databases :
       views = [db0 |-> db, db |-> db,
                init |-> [i \in 1..MaxInits |->
                            [pc |-> "new", conn |-> "none", warning |-> None,
                             raised |-> FALSE, used |-> None]]]

\* conn = sqlite3.connect(self.db_path)
view_connect(i) ==
  /\ views.init[i].pc = "new"
  /\ \E eng \in {"ok"} \cup ConnectErrors :
       views' = [views EXCEPT !.init[i] =
                   IF eng = "ok" THEN [@ EXCEPT !.pc = "connected", !.conn = "open"]
                   ELSE ViewExcept(@, eng)]
  /\ UNCHANGED <<graphVars, repairCall, searchCall, synthPair, classifyCall, batch, conc>>

\* cursor.execute(CREATE VIEW IF NOT EXISTS order_details AS ...)
view_execute(i) ==
  /\ views.init[i].pc = "connected"
  /\ \E eng \in StatementOutcomes :
       views' = IF eng = "ok"
                  THEN [views EXCEPT !.db = CreateViewIfNotExists(@, ViewName, ViewSql),
                                     !.init[i].pc = "executed"]
                  ELSE [views EXCEPT !.init[i] = ViewExcept(@, eng)]
  /\ UNCHANGED <<graphVars, repairCall, searchCall, synthPair, classifyCall, batch, conc>>

\* conn.commit(); conn.close()
view_commit(i) ==
  /\ views.init[i].pc = "executed"
  /\ \E eng \in {"ok", "database is locked"} :
       views' = [views EXCEPT !.init[i] =
                   IF eng = "ok" THEN [@ EXCEPT !.pc = "built", !.conn = "closed"]
                   ELSE ViewExcept(@, eng)]
  /\ UNCHANGED <<graphVars, repairCall, searchCall, synthPair, classifyCall, batch, conc>>

\* The constructed store runs a query on the view.
store_use(i) ==
  /\ views.init[i].pc = "built"
  /\ \E eng \in EngineOutcomes :
       /\ (eng.kind = "ok") => HasView(views.db, ViewName)
       /\ views' = [views EXCEPT
                      !.init[i].pc = "used",
                      !.init[i].used = ExecuteQuery("SELECT COUNT(1) FROM order_details", eng)]
  /\ UNCHANGED <<graphVars, repairCall, searchCall, synthPair, classifyCall, batch, conc>>

ViewNext ==
  \E i \in 1..MaxInits : view_connect(i) \/ view_execute(i) \/ view_commit(i) \/ store_use(i)
ViewSpec == ViewInit /\ [][ViewNext]_vars

(***************************************************************************)
(* Two sessions of the app on the one cached agent and compiled graph.     *)
(* Each invoke has its own run state; the agent's status_callback is the   *)
(* one attribute the sessions share.                                       *)
(***************************************************************************)
ConcRuns == {1, 2}
ConcQuestions == <<"what is the product policy on returns", "Total revenue in Summer 1997">>
ConcChunks == LoadAndIndex(Docs1, 0)
ConcEngine ==
  {e \in EngineOutcomes : (e.kind = "ok" /\ e.rows # <<>>) \/ e.msg = "no such table: Order Details"}

\* What node `nd` can return for run state st, with the edge taken after it; a
\* generator call of the router, the planner or the Query Synthesizer may raise.
NodeResults(nd, st) ==
  CASE nd = "router" ->
         { [state |-> s2, node |-> RouterEdge(s2)]
           : s2 \in { Update(st, [classification |-> Classify(o)]) : o \in Labels } }
         \cup { [state |-> st, node |-> "RAISED"] }
    [] nd = "retriever" ->
         { [state |-> s2, node |-> RetrieverEdge(s2)]
           : s2 \in { Update(st, [rag_chunks |->
                                    Search(ConcChunks, [i \in 1..Len(ConcChunks) |-> 1],
                                           st["question"], TopK)]) } }
    [] nd = "planner" ->
         { [state |-> Update(st, [plan_requirements |-> o]), node |-> "sql_gen"]
           : o \in {"OrderDate from 1997-06-01 to 1997-06-30"} }
         \cup { [state |-> st, node |-> "RAISED"] }
    [] nd = "sql_gen" ->
         { [state |-> Update(st, [sql_query |-> CleanSql(o)]), node |-> "sql_exec"]
           : o \in {"SELECT COUNT(1) FROM \"Order Details\" -- all"} }
         \cup { [state |-> st, node |-> "RAISED"] }
    [] nd = "sql_exec" ->
         { [state |-> s2, node |-> ExecEdge(s2)]
           : s2 \in { Update(st, ExecUpdate(st, ExecuteQuery(st["sql_query"], e)))
                      : e \in ConcEngine } }
    [] nd = "synthesizer" ->
         { [state |-> Update(st, SynthUpdate(st, o)), node |-> "END"] : o \in {x \in SynthOutcomes : x.kind = "ok"} }

\* A graph that keeps the run state of the first invoke on the agent.
RunView_OnAgent(c, r) == IF c.run[1].node # "new" THEN c.run[1].state ELSE c.run[r].state

\* The state a node of run r is called with: the state of that invoke.
RunView(c, r) == c.run[r].state

ConcInit ==
  /\ GraphIdle
  /\ repairCall = NoCall /\ searchCall = NoCall /\ synthPair = NoCall
  /\ classifyCall = NoCall /\ batch = NoCall /\ views = NoCall
  /\ conc = [callback |-> 0, seen |-> {},
             run |-> [r \in ConcRuns |-> [node |-> "new", state |-> <<>>, trace |-> <<>>]],
             ui |-> [r \in ConcRuns |-> [status |-> "idle", error |-> None, messages |-> <<>>]]]

\* A session installs its callback on the agent and invokes the graph.
conc_invoke(r) ==
  /\ conc.run[r].node = "new"
  /\ conc' = [conc EXCEPT !.callback = r,
                          !.ui[r] = [status |-> "working", error |-> None,
                                     messages |-> <<"user">>],
                          !.run[r] = [node |-> "router",
                                      state |-> InitialState(ConcQuestions[r], "str"),
                                      trace |-> <<>>]]
  /\ UNCHANGED <<graphVars, repairCall, searchCall, synthPair, classifyCall, batch, views>>

\* One node of run r; its log lines go to whatever callback the agent holds at the
\* time (0: none, and the lines are shown to nobody).
conc_node(r) ==
  /\ conc.run[r].node \notin {"new", "END", "RAISED", "closed", "failed"}
  /\ \E res \in NodeResults(conc.run[r].node, RunView(conc, r)) :
       conc' = [conc EXCEPT
                  !.seen = @ \cup {<<conc.callback, r>>},
                  !.run[r] = [node |-> res.node, state |-> res.state,
                              trace |-> Append(@.trace, conc.run[r].node)]]
  /\ UNCHANGED <<graphVars, repairCall, searchCall, synthPair, classifyCall, batch, views>>

\* A handler that marks the analysis complete whether or not invoke raised.
HandlerOutcome_SilentFailure(ui, nd) ==
  IF nd = "END"
    THEN [status |-> "complete", error |-> None, messages |-> Append(ui.messages, "assistant")]
    ELSE [status |-> "complete", error |-> None, messages |-> ui.messages]

\* What the chat handler shows once invoke has returned (nd = "END") or raised: the
\* status container, the error box, the messages of the conversation.
HandlerOutcome(ui, nd) ==
  IF nd = "END"
    THEN [status |-> "complete", error |-> None, messages |-> Append(ui.messages, "assistant")]
    ELSE [status |-> "error", error |-> Str("An error occurred: " \o Raises),
          messages |-> ui.messages]

\* The rest of the handler after invoke, and finally: agent_instance.status_callback = None
conc_finally(r) ==
  /\ conc.run[r].node \in {"END", "RAISED"}
  /\ conc' = [conc EXCEPT !.callback = 0,
                          !.ui[r] = HandlerOutcome(@, conc.run[r].node),
                          !.run[r].node = IF @ = "END" THEN "closed" ELSE "failed"]
  /\ UNCHANGED <<graphVars, repairCall, searchCall, synthPair, classifyCall, batch, views>>

ConcNext == \E r \in ConcRuns : conc_invoke(r) \/ conc_node(r) \/ conc_finally(r)
ConcSpec == ConcInit /\ [][ConcNext]_vars


Count(name) == Cardinality({i \in 1..Len(trace) : trace[i] = name})
Retries == Get(state, "retries", 0)
IsPrefix(p, q) == Len(p) <= Len(q) /\ SubSeq(q, 1, Len(p)) = p

(***************************************************************************)
(* The repair loop.                                                        *)
(***************************************************************************)
\* C1: in every reachable state the Query Synthesizer has been invoked at most 3 times,
\* the Query Executor at most 3 times, and the retry counter is at most 2.
C1_BoundedRepairLoop ==
  /\ Count("sql_gen") <= 3
  /\ Count("sql_exec") <= 3
  /\ Retries <= 2

\* A run that used up the loop: two failed executions, counter at 2, about to synthesize.
C1_Witness ==
  /\ node = "synthesizer"
  /\ Retries = 2
  /\ Count("sql_exec") = 2
  /\ Count("sql_gen") = 2

\* C2 (as claimed): an execution failure that the executor observes (non-empty error
\* text) while the counter, read before the increment for that failure, is below 2
\* increments the counter and returns to the Query Synthesizer.
C2_RetryWhileBelowCeiling ==
  [][ ( /\ trace' = Append(trace, "sql_exec")
        /\ Truthy(Last(storeRets').ret.error)
        /\ Retries < 2 )
      => ( /\ Get(state', "retries", 0) = Retries + 1
           /\ node' = "sql_gen" ) ]_vars

\* C3: under the graph runner's fairness every run ends: at END after exactly one
\* synthesizer_node call, which is the last node invoked, or with the exception of a
\* generator call in router, planner or sql_gen; the store and the synthesizer never
\* make a run raise, so exhausted retries still end at END.
C3_TerminatesAtSynthesizer ==
  /\ <>(node \in {"END", "RAISED"})
  /\ [](Count("synthesizer") <= 1)
  /\ [](node = "END" => (Count("synthesizer") = 1 /\ Last(trace) = "synthesizer"))
  /\ [](node = "RAISED" => Last(trace) \in {"router", "planner", "sql_gen"})

\* A run that exhausted its retries and still ended at END with an answer.
C3_Witness ==
  /\ node = "END"
  /\ Retries = 2
  /\ Truthy(state["sql_error"])
  /\ "final_answer" \in DOMAIN state

\* C4: once the router step has returned, classification is present and is one of sql,
\* rag, hybrid, in that state and in every later state of the run.
C4_ClassificationClosed ==
  /\ ("classification" \in DOMAIN state) => (state["classification"] \in Labels)
  /\ (Len(trace) >= 2 \/ (Len(trace) = 1 /\ node # "RAISED"))
       => ("classification" \in DOMAIN state)

\* A finished run on the hybrid route.
C4_Witness ==
  /\ node = "END"
  /\ "classification" \in DOMAIN state
  /\ state["classification"] = "hybrid"

\* C5 (as claimed): the first Query Synthesizer call gets no error text; every later call
\* gets exactly the error the store returned from the execution just before it, which
\* failed; and the first failed execution of a run is followed by such a repair call.
C5_ExactErrorFeedback ==
  [][ /\ (trace' = Append(trace, "sql_gen") /\ genArgs = <<>>)
          => ~Truthy(Last(genArgs'))
      /\ (trace' = Append(trace, "sql_gen") /\ genArgs # <<>>)
          => ( /\ Last(trace) = "sql_exec"
               /\ Last(storeRets).ret.excPath
               /\ Last(genArgs') = Last(storeRets).ret.error )
      /\ ( /\ trace' = Append(trace, "sql_exec")
           /\ Last(storeRets').ret.excPath
           /\ \A i \in 1..Len(storeRets) : ~storeRets[i].ret.excPath )
          => node' = "sql_gen" ]_vars

\* C6 (as claimed): the retry counter starts at 0, a failed execution adds exactly 1, a
\* successful execution and every other step leave it unchanged.
C6_CounterOnlyOnFailure ==
  /\ (trace = <<>> => Retries = 0)
  /\ [][ (( /\ trace' = Append(trace, "sql_exec")
            /\ Last(storeRets').ret.excPath )
            => (Get(state', "retries", 0) = Retries + 1))
         /\
         (( /\ trace' = Append(trace, "sql_exec")
            /\ ~Last(storeRets').ret.excPath )
            => (Get(state', "retries", 0) = Retries))
         /\
         ((trace' # Append(trace, "sql_exec"))
            => (Get(state', "retries", 0) = Retries)) ]_vars

(***************************************************************************)
(* The three routes.                                                       *)
(***************************************************************************)
OnRoute(label) == "classification" \in DOMAIN state /\ state["classification"] = label

\* C7: on the rag route the nodes invoked are router, retriever, synthesizer in that
\* order; neither the Query Synthesizer, the Query Executor nor the planner is invoked,
\* no query is stored, and the batch record's sql field is the empty string.
C7_RagRoute ==
  OnRoute("rag") =>
    /\ IsPrefix(trace, <<"router", "retriever", "synthesizer">>)
    /\ Count("sql_gen") = 0 /\ Count("sql_exec") = 0 /\ Count("planner") = 0
    /\ "sql_query" \notin DOMAIN state
    /\ BatchSql(state) = ""
    /\ (node = "END" => trace = <<"router", "retriever", "synthesizer">>)

\* A finished rag run that retrieved passages.
C7_Witness ==
  /\ OnRoute("rag")
  /\ node = "END"
  /\ state["rag_chunks"] # <<>>

\* C8: on the hybrid route the first five nodes are router, retriever, planner, sql_gen,
\* sql_exec; the planner has run exactly once as soon as retrieval is over, also after
\* a repair; on the sql and rag routes it never runs.
C8_HybridRoute ==
  /\ OnRoute("hybrid") =>
       /\ \/ IsPrefix(trace, <<"router", "retriever", "planner", "sql_gen", "sql_exec">>)
          \/ IsPrefix(<<"router", "retriever", "planner", "sql_gen", "sql_exec">>, trace)
       /\ Count("planner") <= 1
       /\ (Count("retriever") = 1 /\ node # "planner") => Count("planner") = 1
  /\ (OnRoute("sql") \/ OnRoute("rag")) => Count("planner") = 0

\* A finished hybrid run that went through one repair.
C8_Witness ==
  /\ OnRoute("hybrid")
  /\ node = "END"
  /\ Count("sql_gen") = 2
  /\ Count("planner") = 1

\* C9: on the sql route the Query Synthesizer is the node after the router, retriever and
\* planner are never invoked, and passages and constraints stay empty to the end.
C9_SqlRoute ==
  OnRoute("sql") =>
    /\ (Len(trace) >= 2 => (trace[1] = "router" /\ trace[2] = "sql_gen"))
    /\ Count("retriever") = 0 /\ Count("planner") = 0
    /\ Get(state, "rag_chunks", <<>>) = <<>>
    /\ Get(state, "plan_requirements", "") = ""

\* A finished sql run.
C9_Witness ==
  /\ OnRoute("sql")
  /\ node = "END"
  /\ Count("sql_exec") >= 1

(***************************************************************************)
(* The Evidence Store.                                                     *)
(***************************************************************************)
\* C10: no execute_query call raises; an engine failure (query or connect) comes back as
\* the pair (no rows, an error string), a success as (the engine's rows, None); no call
\* leaves a connection open.
C10_ExecuteNeverRaises ==
  \A i \in 1..Len(storeRets) :
    LET c == storeRets[i]
    IN  /\ ~c.ret.raised
        /\ c.ret.conn # "open"
        /\ (c.eng.kind # "ok") => (c.ret.results = <<>> /\ ~IsNone(c.ret.error)
                                     /\ c.ret.error.s = c.eng.msg)
        /\ (c.eng.kind = "ok") => (c.ret.results = c.eng.rows /\ IsNone(c.ret.error))

\* A run whose first execution could not connect and whose second returned rows.
C10_Witness ==
  /\ Len(storeRets) = 2
  /\ storeRets[1].eng.kind = "connect_fail"
  /\ storeRets[2].eng.kind = "ok"
  /\ storeRets[2].ret.results # <<>>

(***************************************************************************)
(* Execution outcomes and the run state.                                   *)
(***************************************************************************)
\* C11: an execution that matches zero rows is a success: the store returns (no rows,
\* None), the executor records sql_result = [] and sql_error = None, leaves the retry
\* counter alone, and the next node is the synthesizer, not a repair.
C11_ZeroRowsIsSuccess ==
  [][ ( /\ trace' = Append(trace, "sql_exec")
        /\ Last(storeRets').eng.kind = "ok"
        /\ Last(storeRets').eng.rows = <<>> )
      => ( /\ Last(storeRets').ret.results = <<>>
           /\ IsNone(Last(storeRets').ret.error)
           /\ state'["sql_result"] = <<>>
           /\ IsNone(state'["sql_error"])
           /\ Get(state', "retries", 0) = Retries
           /\ node' = "synthesizer" ) ]_vars

\* A finished run whose only execution matched zero rows.
C11_Witness ==
  /\ node = "END"
  /\ Len(storeRets) = 1
  /\ storeRets[1].eng.kind = "ok"
  /\ storeRets[1].eng.rows = <<>>
  /\ state["sql_result"] = <<>>
  /\ Count("sql_gen") = 1

\* C12 (as claimed): after every sql_exec step sql_error is set exactly when that
\* execution failed; and from a successful execution on, the run has sql_error absent
\* and the rows of that execution, up to and including answer synthesis.
C12_ErrorIffLastFailed ==
  /\ [][ (trace' = Append(trace, "sql_exec"))
          => ((~IsNone(state'["sql_error"])) <=> (Last(storeRets').eng.kind # "ok")) ]_vars
  /\ []( (storeRets # <<>> /\ Last(storeRets).eng.kind = "ok" /\ Last(trace) # "sql_gen")
          => ( /\ IsNone(state["sql_error"])
               /\ state["sql_result"] = Last(storeRets).eng.rows
               /\ node \in {"synthesizer", "END"} ) )

(***************************************************************************)
(* Citations and the answer synthesizer.                                   *)
(***************************************************************************)
\* C13: the citations of a synthesizer step contain the id of every passage that was
\* in rag_chunks when the step ran, for every outcome of the generator call.
C13_CitationsCoverPassages ==
  [][ (trace' = Append(trace, "synthesizer"))
      => ( /\ "citations" \in DOMAIN state'
           /\ \A i \in 1..Len(Get(state, "rag_chunks", <<>>)) :
                state["rag_chunks"][i].id \in state'["citations"] ) ]_vars

\* A finished hybrid run with passages and a query whose generator call failed
\* beyond recovery.
C13_Witness ==
  /\ node = "END"
  /\ Get(state, "rag_chunks", <<>>) # <<>>
  /\ Get(state, "sql_query", "") # ""
  /\ state["final_answer"] = SentinelAnswer
  /\ \A i \in 1..Len(state["rag_chunks"]) : state["rag_chunks"][i].id \in state["citations"]

\* C15 (as claimed): every table or view of the schema description whose name occurs,
\* ignoring case, in the query the synthesizer sees is cited (under its name, ignoring
\* case).
C15_KnownTablesCited ==
  [][ (trace' = Append(trace, "synthesizer"))
      => \A i \in 1..Len(KnownTables) :
           StrContains(StrLower(Get(state, "sql_query", "")), StrLower(KnownTables[i]))
             => \E c \in state'["citations"] : StrLower(c) = StrLower(KnownTables[i]) ]_vars

\* The payload the synthesizer's recovery works on: the bracketed text of the error,
\* typo corrected, parsed; not ok when there is none or it does not parse.
RecoveredPayload(outcome) ==
  LET m == RegexPayload(outcome.err)
  IN  IF IsNone(m) THEN [ok |-> FALSE, data |-> <<>>]
      ELSE JsonLoads(StrReplace(m.s, "explanicn", "explanation"))

\* C16: a synthesizer step never raises: the run ends at END with final_answer,
\* explanation and citations; when the generator call raised and the error carries a
\* payload that parses once the typo is corrected, the answer fields come from the
\* payload (the typo'd field included), otherwise they are exactly the sentinel pair.
C16_SynthesizerDegrades ==
  [][ (trace' = Append(trace, "synthesizer"))
      => LET o == Last(synthOuts')
         IN  /\ node' = "END"
             /\ {"final_answer", "explanation", "citations"} \subseteq DOMAIN state'
             /\ (o.kind = "raise" /\ ~RecoveredPayload(o).ok)
                  => ( /\ state'["final_answer"] = SentinelAnswer
                       /\ state'["explanation"] = SentinelExplanation )
             /\ (o.kind = "raise" /\ RecoveredPayload(o).ok)
                  => LET data == RecoveredPayload(o).data
                     IN  /\ ("final_answer" \in DOMAIN data)
                              => state'["final_answer"] = data["final_answer"]
                         /\ ("explanation" \in DOMAIN data)
                              => state'["explanation"] = data["explanation"]
             /\ (o.kind = "raise" /\ StrContains(o.err, "\"explanicn\": \"policy\""))
                  => state'["explanation"] = "policy" ]_vars

\* A finished run whose answer was recovered from the error text, typo corrected.
C16_Witness ==
  /\ node = "END"
  /\ Last(synthOuts).kind = "raise"
  /\ StrContains(Last(synthOuts).err, "explanicn")
  /\ state["final_answer"] = "14 days"
  /\ state["explanation"] = "policy"

\* C14: two runs that reach answer synthesis with the same passages and the same query
\* get the same citation set, whatever the generator answers in each and however their
\* rows, errors, retry counts, routes or constraints differ.
C14_CitationsReproducible ==
  (synthPair[1].done /\ synthPair[2].done)
    => synthPair[1].st["citations"] = synthPair[2].st["citations"]

\* Two finished runs with one query over the same passages, one with rows and a parsed
\* answer, the other exhausted with an error and the sentinel answer: same citations.
C14_Witness ==
  /\ synthPair[1].done /\ synthPair[2].done
  /\ Get(synthPair[1].st, "sql_result", <<>>) # <<>>
  /\ Truthy(Get(synthPair[2].st, "sql_error", None))
  /\ Get(synthPair[2].st, "retries", 0) = 2
  /\ synthPair[1].st["final_answer"] = "42"
  /\ synthPair[2].st["final_answer"] = SentinelAnswer
  /\ synthPair[1].st["citations"] = synthPair[2].st["citations"]
  /\ Cardinality(synthPair[1].st["citations"]) >= 2

(***************************************************************************)
(* The deterministic query repair.                                         *)
(***************************************************************************)
\* The repair table as the claim gives it: malformed token, canonical form.
MalformedTokens ==
  << <<"BETWE0N", "BETWEEN">>, <<"OrderDetails", "order_details">>,
     <<"\"Order Details\"", "order_details">>, <<"Orders", "orders">>,
     <<"Products", "products">>, <<"Categories", "categories">> >>
HasMalformed(s) == \E i \in 1..Len(MalformedTokens) : StrContains(s, MalformedTokens[i][1])

\* Idempotence and canonical forms: a second application changes nothing; the result
\* holds no fence and no malformed token; a malformed token on its own becomes its
\* canonical form.
RepairCanonical ==
  /\ (Len(repairCall.outs) = 2) => (repairCall.outs[2] = repairCall.outs[1])
  /\ (Len(repairCall.outs) >= 1)
       => ( /\ ~HasMalformed(repairCall.outs[1])
            /\ ~StrContains(repairCall.outs[1], Fence)
            /\ \A i \in 1..Len(MalformedTokens) :
                 (repairCall.raw = MalformedTokens[i][1])
                   => (repairCall.outs[1] = MalformedTokens[i][2]) )

\* C17 (as claimed): the repair is idempotent and canonicalizing, and a text with no
\* fence and no malformed token is returned unchanged.
C17_RepairIdempotentUnchanged ==
  /\ RepairCanonical
  /\ ( /\ Len(repairCall.outs) >= 1
       /\ ~HasMalformed(repairCall.raw)
       /\ ~StrContains(repairCall.raw, Fence) )
       => (repairCall.outs[1] = repairCall.raw)

\* C17 (amended): the repair is idempotent and canonicalizing, and a text with no fence
\* and no malformed token is returned with its leading and trailing whitespace removed
\* and otherwise unchanged.
C17_RepairIdempotentUpToStrip ==
  /\ RepairCanonical
  /\ ( /\ Len(repairCall.outs) >= 1
       /\ ~HasMalformed(repairCall.raw)
       /\ ~StrContains(repairCall.raw, Fence) )
       => (repairCall.outs[1] = StrStrip(repairCall.raw))

\* A fenced output with a malformed token, repaired twice: canonical after the first
\* application, unchanged by the second.
C17_Witness ==
  /\ Len(repairCall.outs) = 2
  /\ repairCall.raw = Fence \o "\"Order Details\""
  /\ repairCall.outs[1] = "order_details"
  /\ repairCall.outs[2] = "order_details"

\* C18 (as claimed): the query text handed to the executor holds no code-fence
\* delimiter, no single-line comment and no block comment, whatever the generator
\* returned.
C18_NoFenceNoComments ==
  [][ (trace' = Append(trace, "sql_exec"))
      => ( /\ ~StrContains(state["sql_query"], Fence)
           /\ ~StrContains(state["sql_query"], "--")
           /\ ~StrContains(state["sql_query"], "/*") ) ]_vars

(***************************************************************************)
(* The Passage Index.                                                      *)
(***************************************************************************)
\* The index in retriever.chunks of a returned passage (chunk ids are unique).
ChunkIndex(p) == CHOOSE i \in 1..Len(chunks) : chunks[i].id = p.id
\* Chunk i ranks before chunk j: higher final score, or the same score and a lower index.
RanksBefore(b, i, j) == b[i] > b[j] \/ (b[i] = b[j] /\ i < j)

\* C19: a search call returns at most k passages, each with a strictly positive final
\* score (the one it reports), in rank order (score descending, index ascending among
\* equals), and they are exactly the min(k, number of positive chunks) best-ranked
\* chunks.
C19_SearchTopK ==
  searchCall.called =>
    LET res == searchCall.result
        b == BoostedScores(chunks, searchCall.scores, searchCall.query)
        positive == {i \in 1..Len(chunks) : b[i] > 0}
        returned == {ChunkIndex(res[j]) : j \in 1..Len(res)}
    IN  /\ Len(res) <= searchCall.k
        /\ \A j \in 1..Len(res) :
             /\ \E i \in 1..Len(chunks) : chunks[i].id = res[j].id
             /\ res[j].score > 0
             /\ res[j].score = b[ChunkIndex(res[j])]
             /\ res[j].text = chunks[ChunkIndex(res[j])].text
        /\ \A j \in 1..(Len(res) - 1) :
             RanksBefore(b, ChunkIndex(res[j]), ChunkIndex(res[j + 1]))
        /\ Len(res) = (IF searchCall.k < Cardinality(positive)
                         THEN searchCall.k ELSE Cardinality(positive))
        /\ Cardinality(returned) = Len(res)
        /\ \A i \in positive \ returned : \A r \in returned : RanksBefore(b, r, i)

\* A call with k = 2 on four chunks of equal positive score: the first two come back.
C19_Witness ==
  /\ searchCall.called
  /\ searchCall.k = 2
  /\ Len(chunks) = 4
  /\ \A i \in 1..4 : searchCall.scores[i] = 1
  /\ Len(searchCall.result) = 2
  /\ searchCall.result[1].id = chunks[1].id
  /\ searchCall.result[2].id = chunks[2].id

\* No file of the directory yields a chunk: there is none, or each is unreadable or
\* holds whitespace only.
EmptyCorpus(d) ==
  \A i \in 1..Len(d) : (~d[i].readable) \/ StrStrip(d[i].content) = ""

\* C20: with a corpus of no documents, or of documents without a non-blank chunk, no
\* chunk is indexed and the index is not built; search returns the empty sequence for
\* every query and k; the retriever step does not raise, stores empty passages and
\* hands the run on towards the synthesizer.
C20_EmptyCorpus ==
  EmptyCorpus(docs) =>
    /\ chunks = <<>>
    /\ ~Bm25Built(chunks)
    /\ \A q \in SearchQueries, k \in 0..(MaxK + TopK) : Search(chunks, <<>>, q, k) = <<>>
    /\ ("rag_chunks" \in DOMAIN state) => (state["rag_chunks"] = <<>>)
    /\ (trace # <<>> /\ Last(trace) = "retriever")
         => ( /\ "rag_chunks" \in DOMAIN state
              /\ node = (IF state["classification"] = "hybrid" THEN "planner" ELSE "synthesizer") )
    /\ (node = "END" /\ Count("retriever") = 1) => (state["citations"] \subseteq SeqToSet(CitedTables))

\* A finished hybrid run over a directory whose only file is blank.
C20_Witness ==
  /\ docs = DocsBlank
  /\ node = "END"
  /\ state["classification"] = "hybrid"
  /\ trace[2] = "retriever"
  /\ state["rag_chunks"] = <<>>

(***************************************************************************)
(* The batch drivers.                                                      *)
(***************************************************************************)
\* C21 (as claimed): no exception of a single record ends the batch: the driver never
\* stops early, every processed record has its output record at its position, a
\* record that cannot be read gets an error record, and the output written at the end
\* has one record per input record, in input order.
C21_BatchNeverTerminated ==
  /\ ~batch.aborted
  /\ Len(batch.results) = batch.pos - 1
  /\ \A i \in 1..Len(batch.results) :
       /\ batch.results[i].id = batch.input[i].id
       /\ (~batch.input[i].complete) => ("error" \in DOMAIN batch.results[i])
  /\ batch.written
       => ( /\ Len(batch.output) = Len(batch.input)
            /\ \A i \in 1..Len(batch.input) : batch.output[i].id = batch.input[i].id )

\* An error text with a rate-limit signature: 429 or quota, in any letter case.
RateLimitSignature(err) ==
  \/ StrContains(err, "429")
  \/ \E w \in {"quota", "Quota", "QUOTA"} : StrContains(err, w)

\* The invocations of one question under the app's policy: at most three; each but the
\* last raised a rate-limit error and was followed by one sleep of the fixed length;
\* with `closed`, the last one ended the question: a result, an error without the
\* signature (never retried), or the third rate-limit error.
PolicyFollowed(attempts, sleeps, closed) ==
  /\ Len(attempts) <= 3
  /\ Len(sleeps) = (IF closed THEN Len(attempts) - 1 ELSE Len(attempts))
  /\ \A j \in 1..Len(sleeps) : sleeps[j] = 60
  /\ \A j \in 1..Len(sleeps) :
       attempts[j].kind = "raise" /\ RateLimitSignature(attempts[j].err)
  /\ closed => LET last == attempts[Len(attempts)]
               IN  (last.kind = "raise" /\ RateLimitSignature(last.err))
                     => Len(attempts) = 3

\* C22: in the app's batch loop every question follows the rate-limit policy; a
\* question that ends with an error (signature or not) gets exactly one error record
\* carrying that error, and the loop goes on to the next question.
C22_RateLimitPolicy ==
  (batch.driver = "app") =>
    /\ Len(batch.results) = batch.pos - 1
    /\ Len(batch.log) = batch.pos - 1
    /\ PolicyFollowed(batch.attempts, batch.sleeps, FALSE)
    /\ Len(batch.attempts) < 3
    /\ \A i \in 1..Len(batch.log) :
         LET e == batch.log[i]
         IN  (e.attempts # <<>>) =>
               /\ PolicyFollowed(e.attempts, e.sleeps, TRUE)
               /\ e.record = batch.results[i]
               /\ (Last(e.attempts).kind = "raise")
                    => ( /\ "error" \in DOMAIN e.record
                         /\ e.record.error = Last(e.attempts).err )
               /\ (Last(e.attempts).kind = "ok") => ("error" \notin DOMAIN e.record)

\* An app batch whose first question used up the policy (three rate-limit errors, two
\* sleeps, one error record) and whose second question was then answered.
C22_Witness ==
  /\ batch.driver = "app"
  /\ batch.written
  /\ Len(batch.log) = 2
  /\ Len(batch.log[1].attempts) = 3
  /\ Len(batch.log[1].sleeps) = 2
  /\ Last(batch.log[1].attempts).err = "Quota exceeded for model"
  /\ "error" \in DOMAIN batch.output[1]
  /\ "error" \notin DOMAIN batch.output[2]
  /\ Len(batch.output) = 2

\* A question failed: its record could not be read, or its last invocation raised.
QuestionFailed(i) ==
  (~batch.input[i].complete)
  \/ (batch.log[i].attempts # <<>> /\ Last(batch.log[i].attempts).kind = "raise")

SuccessShape(rec) ==
  /\ {"id", "final_answer", "sql", "explanation", "citations"} \subseteq DOMAIN rec
  /\ "error" \notin DOMAIN rec

\* C25 (as claimed): the record of a failed question has id and error and no
\* final_answer field; the record of a completed question has id, final_answer, sql,
\* explanation and citations and no error field.
C25_ErrorInsteadOfAnswer ==
  \A i \in 1..Len(batch.results) :
    IF QuestionFailed(i)
      THEN /\ {"id", "error"} \subseteq DOMAIN batch.results[i]
           /\ "final_answer" \notin DOMAIN batch.results[i]
      ELSE SuccessShape(batch.results[i])

\* C25 (amended): the record of a failed question has id and error and a final_answer
\* field that is null; the record of a completed question has id, final_answer, sql,
\* explanation and citations and no error field.
C25_ErrorWithNullAnswer ==
  \A i \in 1..Len(batch.results) :
    IF QuestionFailed(i)
      THEN /\ {"id", "error", "final_answer"} \subseteq DOMAIN batch.results[i]
           /\ IsNone(batch.results[i].final_answer)
      ELSE SuccessShape(batch.results[i])

\* A written batch with a failed first question and an answered second one.
C25_Witness ==
  /\ batch.written
  /\ Len(batch.output) = 2
  /\ batch.log[1].attempts # <<>>
  /\ Last(batch.log[1].attempts).kind = "raise"
  /\ IsNone(batch.output[1].final_answer)
  /\ batch.output[2].final_answer = Str("42")
  /\ batch.output[2].sql # ""

(***************************************************************************)
(* Which node writes which field; generation and execution in turn.        *)
(***************************************************************************)
AnswerFields == {"final_answer", "explanation", "citations"}
LoopInputs == {"classification", "rag_chunks", "plan_requirements"}
Invoked(name) == trace' = Append(trace, name)
SameField(f) ==
  /\ (f \in DOMAIN state) = (f \in DOMAIN state')
  /\ (f \in DOMAIN state) => state'[f] = state[f]

\* C26: the answer fields are absent until the synthesizer has run and only a
\* synthesizer step writes them; no step changes question or format_hint; a step of
\* the repair loop (sql_gen, sql_exec) leaves the classification, the passages and the
\* planner's constraints as they were.
C26_SingleWriter ==
  /\ []((Count("synthesizer") = 0) => (AnswerFields \cap DOMAIN state = {}))
  /\ [][ /\ (~Invoked("synthesizer")) => (\A f \in AnswerFields : SameField(f))
         /\ SameField("question") /\ SameField("format_hint")
         /\ "question" \in DOMAIN state'
         /\ (Invoked("sql_gen") \/ Invoked("sql_exec")) => (\A f \in LoopInputs : SameField(f))
       ]_vars

\* A hybrid run that ended after two failed executions, with its passages, its
\* constraints and its answer.
C26_Witness ==
  /\ node = "END"
  /\ state["classification"] = "hybrid"
  /\ Retries = RetryCeiling
  /\ Get(state, "rag_chunks", <<>>) # <<>>
  /\ Get(state, "plan_requirements", "") # ""
  /\ AnswerFields \subseteq DOMAIN state

\* C27: generation and execution alternate strictly: every execution comes right
\* after a generation and runs the query that generation wrote, every generation that
\* returned is followed by an execution, and the query held at synthesis (the one a
\* batch record reports as sql) is the query executed last.
C27_GenExecAlternate ==
  /\ \A i \in 1..Len(trace) :
       /\ (trace[i] = "sql_exec") => (i > 1 /\ trace[i - 1] = "sql_gen")
       /\ (trace[i] = "sql_gen" /\ i < Len(trace)) => trace[i + 1] = "sql_exec"
  /\ (node = "sql_exec") => (Last(trace) = "sql_gen")
  /\ Len(storeRets) = Count("sql_exec")
  /\ Count("sql_gen") - Count("sql_exec") \in {0, 1}
  /\ (Count("sql_exec") = 0) = IsNone(executed)
  /\ (trace # <<>> /\ Last(trace) = "sql_exec") => executed = Str(state["sql_query"])
  /\ (node \in {"synthesizer", "END"} /\ ~IsNone(executed)) => executed = Str(BatchSql(state))
  /\ (node \in {"synthesizer", "END"} /\ IsNone(executed)) => BatchSql(state) = ""

\* A run that ended after a failed and a successful execution, each of a freshly
\* generated query.
C27_Witness ==
  /\ node = "END"
  /\ Count("sql_exec") = 2
  /\ Count("sql_gen") = 2
  /\ Retries = 1
  /\ Get(state, "sql_result", <<>>) # <<>>
  /\ executed = Str(BatchSql(state))
  /\ BatchSql(state) # ""

(***************************************************************************)
(* The direction of the classifier's post-processing.                      *)
(***************************************************************************)
\* C28: a valid label comes out as itself or, if it is sql, as hybrid: rag and hybrid
\* never come out as sql and rag never comes out as anything else; an invalid label
\* comes out as hybrid.
C28_OverrideDirection ==
  (~IsNone(classifyCall.out)) =>
    /\ (classifyCall.label = "sql") => classifyCall.out \in {Str("sql"), Str("hybrid")}
    /\ (classifyCall.label = "rag") => classifyCall.out = Str("rag")
    /\ (classifyCall.label = "hybrid") => classifyCall.out = Str("hybrid")
    /\ (classifyCall.label = "invalid") => classifyCall.out = Str("hybrid")

\* The post-processing has handled a padded, capitalised rag label.
C28_Witness ==
  /\ classifyCall.raw = " Rag\n"
  /\ classifyCall.label = "rag"
  /\ classifyCall.out = Str("rag")

(***************************************************************************)
(* Chunking and the filename boost.                                        *)
(***************************************************************************)
\* The document has a header line: a line that begins with '#'.
HasHeaderLine(content) == StartsWith(content, "#") \/ StrContains(content, "\n#")

\* The pieces of a document: its header sections if it has header lines, else its
\* paragraphs.
Pieces(content) ==
  IF HasHeaderLine(content)
    THEN LET parts == StrSplitOn(content, "\n#")
         IN  [i \in 1..Len(parts) |-> IF i > 1 THEN "#" \o parts[i] ELSE parts[i]]
    ELSE StrSplitOn(content, "\n\n")

RECURSIVE NonBlank(_)
NonBlank(ps) ==
  IF ps = <<>> THEN <<>>
  ELSE (IF StrStrip(Head(ps)) = "" THEN <<>> ELSE <<StrStrip(Head(ps))>>) \o NonBlank(Tail(ps))

RECURSIVE ExpectedBodies(_)
ExpectedBodies(files) ==
  IF files = <<>> THEN <<>>
  ELSE (IF Head(files).readable THEN NonBlank(Pieces(Head(files).content)) ELSE <<>>)
       \o ExpectedBodies(Tail(files))

\* The part of a chunk's text after "Source: <name>\nContent: ".
ChunkBody(ck) ==
  SubSeq(ck.text, Len("Source: " \o ck.clean_name \o "\nContent: ") + 1, Len(ck.text))

\* C29: the index holds, file by file and in order, the header sections of a document
\* that has header lines and the paragraphs of a document that has none, without the
\* blank ones.
C29_ChunkAtHeadersOrParagraphs ==
  (node = "idle" /\ searchCall # NoCall) =>
    [i \in 1..Len(chunks) |-> ChunkBody(chunks[i])] = ExpectedBodies(docs)

\* The number of tokens of the source name (extension dropped, underscores as spaces)
\* that occur among the tokens of the query, letter case apart.
SharedNameTokens(source, query) ==
  LET nameTokens == StrSplit(StrLower(StrReplace(StrReplace(source, ".md", ""), "_", " ")))
      queryTokens == SeqToSet(StrSplit(StrLower(query)))
  IN  Cardinality({i \in 1..Len(nameTokens) : nameTokens[i] \in queryTokens})

\* C30: after a search every chunk's final score is its term-frequency score plus 5 per
\* token of its source name that occurs in the query (so the score itself when there is
\* none), and is positive when a token is shared and the term-frequency score is not
\* negative.
C30_FilenameBoost ==
  (node = "idle" /\ searchCall # NoCall /\ searchCall.called) =>
    LET b == BoostedScores(chunks, searchCall.scores, searchCall.query)
    IN  \A i \in 1..Len(chunks) :
          LET shared == SharedNameTokens(chunks[i].source, searchCall.query)
          IN  /\ b[i] = searchCall.scores[i] + 5 * shared
              /\ (shared > 0 /\ searchCall.scores[i] >= 0) => b[i] > 0

(***************************************************************************)
(* The convenience view under concurrent initializations.                  *)
(***************************************************************************)
ViewCount == Cardinality({j \in 1..Len(views.db) : views.db[j].name = "order_details"})

\* C24: however the initializations interleave, the database never holds more than one
\* order_details view, holds exactly one once the view was there or a creation went
\* through, a view that exists keeps its definition, no initialization raises, and
\* every store, its creation failed or not, is constructed and answers a query without
\* raising.
C24_ViewCreationIdempotent ==
  /\ [](/\ ViewCount <= 1
        /\ (HasView(views.db0, "order_details") \/ \E i \in 1..MaxInits : views.init[i].pc = "executed")
             => ViewCount = 1
        /\ \A i \in 1..MaxInits :
             /\ ~views.init[i].raised
             /\ views.init[i].pc # "failed"
             /\ (~IsNone(views.init[i].warning)) => views.init[i].pc \in {"built", "used"}
             /\ (views.init[i].pc = "used") => ~views.init[i].used.raised)
  /\ [][IsPrefix(views.db, views'.db)]_vars

\* Two initializations have both run their statement on a database that had no view,
\* neither has committed yet, and there is one view, with the definition of the code.
C24_Witness ==
  /\ views.db0 = <<>>
  /\ views.init[1].pc = "executed"
  /\ views.init[2].pc = "executed"
  /\ Len(views.db) = 1
  /\ views.db[1].sql = ViewSql

(***************************************************************************)
(* Runs in progress at once.                                               *)
(***************************************************************************)
\* The runs of a question processed alone: every state and trace it can pass through.
AloneNext(rs) ==
  { [node |-> x.node, state |-> x.state, trace |-> Append(rs.trace, rs.node)]
    : x \in NodeResults(rs.node, rs.state) }
RECURSIVE AloneReach(_, _)
AloneReach(S, n) ==
  LET T == S \cup UNION { AloneNext(rs) : rs \in {x \in S : x.node \notin {"END", "RAISED"}} }
  IN  IF T = S \/ n = 0 THEN S ELSE AloneReach(T, n - 1)
\* The longest run has the four nodes around the repair loop and two per round of it.
AloneRuns ==
  [r \in ConcRuns |->
     AloneReach({ [node |-> "router", state |-> InitialState(ConcQuestions[r], "str"),
                   trace |-> <<>>] }, 4 + 2 * RetryCeiling)]
Progress(rs) ==
  [rs EXCEPT !.node = IF @ = "closed" THEN "END" ELSE IF @ = "failed" THEN "RAISED" ELSE @]

\* C23: with two runs in progress on one agent, a step changes the run state of one
\* run only, and every run is at each moment in a state, with a trace, that the same
\* question reaches when processed alone; so its fields are its own and its retries
\* and outputs are those of a run alone.
C23_RunsIsolated ==
  /\ [](\A r \in ConcRuns :
          (conc.run[r].node # "new") =>
            /\ Progress(conc.run[r]) \in AloneRuns[r]
            /\ conc.run[r].state["question"] = ConcQuestions[r]
            /\ Get(conc.run[r].state, "retries", 0) <= 2
            /\ Cardinality({i \in 1..Len(conc.run[r].trace) : conc.run[r].trace[i] = "sql_gen"}) <= 2)
  /\ [][\E r \in ConcRuns : \A o \in ConcRuns \ {r} : conc'.run[o] = conc.run[o]]_vars

\* Both runs are in progress, log lines of the first have gone to its own session and,
\* once the second session had installed its callback, to that one; the first is in its
\* second repair round and the second took the passage route.
C23_Witness ==
  /\ {<<1, 1>>, <<2, 1>>, <<2, 2>>} \subseteq conc.seen
  /\ conc.run[1].node = "sql_exec"
  /\ Get(conc.run[1].state, "retries", 0) = 1
  /\ conc.run[2].node = "synthesizer"
  /\ conc.run[2].state["classification"] = "rag"
  /\ conc.run[2].state["rag_chunks"] # <<>>

(***************************************************************************)
(* Errors and rows at the executor and at synthesis.                       *)
(***************************************************************************)
ErrorSet(st) == ~IsNone(Get(st, "sql_error", None))

\* C32: when the synthesizer is about to run, a set sql_error means the retry counter
\* is 2 and the last execution failed, and a retry counter below 2 means sql_error is
\* not set.
C32_ErrorOnlyAfterExhaustion ==
  (node = "synthesizer") =>
    /\ ErrorSet(state) => ( /\ Retries = 2
                            /\ storeRets # <<>>
                            /\ Last(storeRets).eng.kind # "ok"
                            /\ Last(trace) = "sql_exec" )
    /\ (Retries < 2) => ~ErrorSet(state)

\* The synthesizer is about to run after two failed executions, with the error set.
C32_Witness ==
  /\ node = "synthesizer"
  /\ ErrorSet(state)
  /\ Retries = 2
  /\ Count("sql_exec") = 2
  /\ Last(storeRets).eng.kind = "query_fail"

\* C33: once the executor has run, a set sql_error goes with empty rows in every
\* state, the one the synthesizer starts from included.
C33_NoRowsWithError ==
  (Count("sql_exec") > 0 /\ ErrorSet(state)) =>
    ("sql_result" \in DOMAIN state /\ state["sql_result"] = <<>>)

\* A run in which a failed execution was followed by one that returned rows: the rows
\* are there and the error is gone.
C33_Witness ==
  /\ node = "synthesizer"
  /\ Count("sql_exec") = 2
  /\ storeRets[1].eng.kind = "query_fail"
  /\ storeRets[2].eng.kind = "ok"
  /\ state["sql_result"] # <<>>
  /\ ~ErrorSet(state)

\* C34 (as claimed): an execution that left execute_query through its except clause,
\* whatever the message, is recorded as failed: sql_error is set, the retry counter goes
\* up by one, and the edge after it is the retry edge while the counter is below the
\* ceiling.
C34_CaughtFailureIsFailure ==
  [][ (trace' = Append(trace, "sql_exec") /\ Last(storeRets').ret.excPath)
      => ( /\ ErrorSet(state')
           /\ Get(state', "retries", 0) = Retries + 1
           /\ (Retries + 1 < 2) => node' = "sql_gen" ) ]_vars

\* C36: the citations of a synthesizer step are passage ids of the state and names
\* among orders, order_details, products, categories, customers; a name is cited only
\* if the query is not empty and contains it, letter case apart; so a run without a
\* query cites passage ids only and a run without passages cites names only.
C36_CitationsWithinEvidence ==
  [][ (trace' = Append(trace, "synthesizer"))
      => LET cks == Get(state, "rag_chunks", <<>>)
             ids == {cks[i].id : i \in 1..Len(cks)}
             names == {"orders", "order_details", "products", "categories", "customers"}
             q == Get(state, "sql_query", "")
             cited == state'["citations"]
         IN  /\ cited \subseteq ids \cup names
             /\ ids \cap names = {}
             /\ \A c \in cited \cap names : q # "" /\ StrContains(StrLower(q), c)
             /\ (state["classification"] = "rag") => cited \subseteq ids
             /\ (state["classification"] = "sql") => cited \subseteq names ]_vars

\* A finished hybrid run that cites a passage and the one table its query names.
C36_Witness ==
  /\ node = "END"
  /\ state["classification"] = "hybrid"
  /\ "orders" \in state["citations"]
  /\ "order_details" \notin state["citations"]
  /\ \E c \in state["citations"] : StrContains(c, "::chunk")
  /\ StrContains(state["sql_query"], "orders")

(***************************************************************************)
(* Passage ids.                                                            *)
(***************************************************************************)
\* C37: no two chunks of the index have the same id: the number in each id is the
\* chunk's position in the index, counted from 0 across all files, behind the name of
\* its file; and the passages a search returns have pairwise distinct ids.
C37_ChunkIdsUnique ==
  (node = "idle" /\ searchCall # NoCall) =>
    /\ \A i, j \in 1..Len(chunks) : (i # j) => chunks[i].id # chunks[j].id
    /\ \A i \in 1..Len(chunks) :
         chunks[i].id = chunks[i].source \o "::chunk" \o ToString(i - 1)
    /\ \A i, j \in 1..Len(searchCall.result) :
         (i # j) => searchCall.result[i].id # searchCall.result[j].id

\* A search over an index of several files returned two passages of the same file
\* under different ids.
C37_Witness ==
  /\ docs = Docs2
  /\ Len(chunks) = 3
  /\ searchCall.called
  /\ Len(searchCall.result) = 2
  /\ searchCall.result[1].source = searchCall.result[2].source
  /\ searchCall.result[1].id # searchCall.result[2].id

(***************************************************************************)
(* The interactive handler and the shared status callback.                 *)
(***************************************************************************)
Finishes(r) ==
  conc.run[r].node \in {"END", "RAISED"} /\ conc'.run[r].node \in {"closed", "failed"}

\* C31: a session whose invoke raised shows the error state and the message and has no
\* assistant message in its conversation; a session whose invoke returned has the
\* assistant message; and the step that ends either resets the agent's status callback.
C31_InteractiveFailureVisible ==
  /\ [](\A r \in ConcRuns :
          /\ (conc.run[r].node = "failed")
               => ( /\ conc.ui[r].status = "error"
                    /\ ~IsNone(conc.ui[r].error)
                    /\ conc.ui[r].messages = <<"user">> )
          /\ (conc.run[r].node = "closed")
               => ( /\ conc.ui[r].status = "complete"
                    /\ IsNone(conc.ui[r].error)
                    /\ conc.ui[r].messages = <<"user", "assistant">> ))
  /\ [][\A r \in ConcRuns : Finishes(r) => conc'.callback = 0]_vars

\* One session has ended with the error shown and the other with its answer.
C31_Witness ==
  /\ conc.run[1].node = "failed"
  /\ conc.ui[1].status = "error"
  /\ conc.ui[1].messages = <<"user">>
  /\ conc.run[2].node = "closed"
  /\ conc.ui[2].messages = <<"user", "assistant">>
  /\ conc.callback = 0

\* C35 (as claimed): every log line of a run went to the callback of that run's own
\* session: never to the other session's, never to none.
C35_MessagesReachOwnSession ==
  \A p \in conc.seen : p[1] = p[2]

====
